---------------------------- MODULE Spec2Model ----------------------------
(***************************************************************************)
(* ThreadSafeStructuredLogger (src/live_logs_handler/handler.py): a        *)
(* bounded queue fed by producer threads, background writer threads that   *)
(* append one line per record to the log file, and the start()/stop()      *)
(* lifecycle guarded by one lock.  Every step below is one stretch of the  *)
(* Python code between two points where another thread can observe or      *)
(* change the shared state.                                                *)
(***************************************************************************)
EXTENDS Integers, Sequences, FiniteSets, TLC

(* ------------------------------ bounds --------------------------------- *)

\* buffer_size given to the constructor (maxsize of log_queue)
Capacity == 3
\* number of start() calls made in a run (each spawns at most one writer)
MaxStarts == 2
\* number of calls (log, logging.*, stream write) each producer thread makes
MaxSubmit == 1
\* number of events of the environment in a run: a write to the file that
\* raises, other code replacing sys.stdout / sys.stderr
MaxEvents == 1

(* ------------------------------ threads -------------------------------- *)

\* the thread that calls start() and stop(); the lock lets one thread at a
\* time into either, so a second caller would only wait here
Ctl == {"c1"}
\* the thread that calls log(), logging.warning() and sys.stdout.write();
\* the lifecycle thread submits its own records as well
Prod == {"p1"}
Threads == Ctl \cup Prod
\* writer threads, in the order start() spawns them
Writers == 1..MaxStarts
NoThread == "-"
None == "-"

(* ------------------------------- text ----------------------------------- *)

\* str.strip() / str.rstrip() remove these
Whitespace == {" ", "\n"}

\* the texts producer threads write to the streams (sequences of characters)
Texts == { <<>>, <<" ", "\n">>, <<"h", "\n">>, <<" ", "h", " ">> }

RECURSIVE rstrip(_)
rstrip(s) ==
    IF s = <<>> THEN <<>>
    ELSE IF s[Len(s)] \in Whitespace THEN rstrip(SubSeq(s, 1, Len(s) - 1))
    ELSE s

RECURSIVE lstrip(_)
lstrip(s) ==
    IF s = <<>> THEN <<>>
    ELSE IF s[1] \in Whitespace THEN lstrip(Tail(s))
    ELSE s

strip(s) == lstrip(rstrip(s))


(* ------------------------------ streams --------------------------------- *)

\* the stream objects sys.stdout / sys.stderr can refer to: the process's
\* real streams (id 0 is the one in place when the logger is constructed,
\* id 1 one that other code installs later) and PrintCapture wrappers
\* (id = the writer generation of the start() that created them)
RealStream(name, id) == [kind |-> "real", name |-> name, id |-> id]

NoStream == [kind |-> "none", name |-> None, id |-> 0]

\* PrintCapture(original, logger_instance, stream_name)
PrintCapture(name, gen) == [kind |-> "wrap", name |-> name, id |-> gen]

(* ------------------------------ records --------------------------------- *)

NoEntry == [severity_text |-> None, body |-> <<>>, source |-> None,
            stream |-> None, timestamp |-> 0, thread_id |-> NoThread,
            thread_name |-> NoThread]

\* what a caller hands to _log: the mandatory fields are not stamped yet
Entry(sev, body, source, stream) ==
    [NoEntry EXCEPT !.severity_text = sev, !.body = body,
                    !.source = source, !.stream = stream]

\* start(): the startup record
StartupEntry == Entry("INFO", <<"Notebook logger started">>, None, None)

\* stop(): the shutdown record
ShutdownEntry == Entry("INFO", <<"Notebook logger stopped">>, None, None)

\* log(level, message): manual entry
ManualEntry == Entry("INFO", <<"m">>, None, None)

\* str.upper() on the level names callers pass to log()
upper(level) ==
    CASE level = "info" -> "INFO"
      [] level = "Error" -> "ERROR"
      [] OTHER -> level

\* the level names callers pass to log()
Levels == {"info", "Error"}

\* the **kwargs callers pass to log(): none, keys of their own, and the keys
\* _log stamps (99 and "c1" are values no clock or thread of p yields)
Kwargs ==
    { <<>>,
      [source |-> "app", stream |-> "s"],
      [timestamp |-> 99, thread_id |-> "c1", thread_name |-> "main"],
      [body |-> <<"k">>, thread_name |-> "main"] }

\* log(level, message, **kwargs): the dict literal, later keys win
LogCallEntry(level, message, kwargs) ==
    [k \in DOMAIN NoEntry |->
        IF k \in DOMAIN kwargs THEN kwargs[k]
        ELSE IF k = "severity_text" THEN upper(level)
        ELSE IF k = "body" THEN message
        ELSE NoEntry[k]]

\* StructuredLogHandler.emit(record)
EmitEntry == Entry("WARNING", <<"f">>, None, None)

\* PrintCapture.write: the guard `if text and text.strip()`
NonBlank(text) == text # <<>> /\ strip(text) # <<>>

\* PrintCapture.write with text.strip() for the body and one severity
CaptureEntryStripsBoth(name, text) == Entry("INFO", strip(text), "print", name)

\* PrintCapture.write: the entry handed to _log
CaptureEntry(name, text) ==
    Entry(IF name = "stderr" THEN "ERROR" ELSE "INFO", rstrip(text), "print", name)

\* a stamping that fills in only the fields the caller left out
StampKeepsCaller(entry, t, n) ==
    [entry EXCEPT !.timestamp = IF @ = NoEntry.timestamp THEN n ELSE @,
                  !.thread_id = IF @ = NoEntry.thread_id THEN t ELSE @,
                  !.thread_name = IF @ = NoEntry.thread_name THEN t ELSE @]

\* _log: "Add standard fields"; n stands for the clock reading of thread t,
\* which with t identifies the record
Stamp(entry, t, n) ==
    [entry EXCEPT !.timestamp = n, !.thread_id = t, !.thread_name = t]

\* the thread and clock reading _log stamped on an entry identify it
Id(e) == << e.thread_id, e.timestamp >>

\* a full queue that makes room by giving up its oldest entry
QueueDropsOldest(q, e) == IF Len(q) >= Capacity THEN Append(Tail(q), e) ELSE Append(q, e)

\* _log: put_nowait inside try/except: a full queue keeps its contents
QueueAfterPut(q, e) == IF Len(q) >= Capacity THEN q ELSE Append(q, e)

\* Queue.put raises Full exactly when the entry is not enqueued
PutAccepted(q) == Len(q) < Capacity

\* _log_writer: the loop condition, its first operand
WriterSeesRunning(run) == run

\* a loop condition that does not look at the queue
WriterIgnoresBacklog(q) == FALSE

\* _log_writer: the loop condition, its second operand
WriterSeesBacklog(q) == q # <<>>

(* ------------------------------- state ---------------------------------- *)

VARIABLES
    capture_print,    \* constructor argument
    running,          \* self.running
    lock,             \* holder of self.lock, or NoThread
    log_queue,        \* self.log_queue: the entries queued
    unfinished,       \* self.log_queue.unfinished_tasks
    logfile,          \* the lines of self.log_file (one entry per line)
    writer_thread,    \* self.writer_thread: the latest writer, 0 = None
    wpc,              \* where each writer thread is in _log_writer
    wentry,           \* the entry a writer has dequeued and not yet written
    handlers,         \* StructuredLogHandler objects attached to the root logger
    log_handler,      \* self.log_handler, 0 = None
    sys_stdout,       \* sys.stdout
    sys_stderr,       \* sys.stderr
    original_stdout,  \* self.original_stdout
    original_stderr,  \* self.original_stderr
    cpc,              \* where each lifecycle thread is in start() / stop()
    raised,           \* the exception the latest start()/stop() call raised to its caller
    ppc,              \* where each producer thread is in its call
    pentry,           \* the entry a producer is submitting
    calls,            \* calls a producer has made
    seq,              \* per thread: entries it has passed through _log
    out,              \* the latest write that reached a real stream
    dropped,          \* entries put_nowait refused, as (thread, clock) pairs
    starts,           \* start() calls made so far
    events,           \* events of the environment so far
    pre_start,        \* sys.stdout, sys.stderr as the latest start() found them
    dequeued          \* the get() calls that returned an entry, in order: writer, entry

vars == << capture_print, running, lock, log_queue, unfinished, logfile,
           writer_thread, wpc, wentry, handlers, log_handler, sys_stdout,
           sys_stderr, original_stdout, original_stderr, cpc, raised, ppc,
           pentry, calls, seq, out, dropped, starts, events,
           pre_start, dequeued >>

queue_vars == << log_queue, unfinished >>
writer_vars == << writer_thread, wpc, wentry >>
stream_vars == << sys_stdout, sys_stderr, original_stdout, original_stderr >>
prod_vars == << ppc, pentry, calls >>

\* __init__
Init ==
    /\ capture_print \in BOOLEAN
    /\ running = FALSE
    /\ lock = NoThread
    /\ log_queue = <<>>
    /\ unfinished = 0
    /\ logfile = <<>>
    /\ writer_thread = 0
    /\ wpc = [w \in Writers |-> "unborn"]
    /\ wentry = [w \in Writers |-> NoEntry]
    /\ handlers = <<>>
    /\ log_handler = 0
    /\ sys_stdout = RealStream("stdout", 0)
    /\ sys_stderr = RealStream("stderr", 0)
    /\ original_stdout = sys_stdout
    /\ original_stderr = sys_stderr
    /\ cpc = [c \in Ctl |-> "idle"]
    /\ raised = None
    /\ ppc = [p \in Prod |-> "idle"]
    /\ pentry = [p \in Prod |-> NoEntry]
    /\ calls = [p \in Prod |-> 0]
    /\ seq = [t \in Threads |-> 0]
    /\ out = [stream |-> NoStream, text |-> <<>>]
    /\ dropped = {}
    /\ starts = 0
    /\ events = 0
    /\ pre_start = << sys_stdout, sys_stderr >>
    /\ dequeued = <<>>


(* ------------------------- _log and print ------------------------------- *)

\* the entry thread t enqueues next
NextEntry(t, entry) == Stamp(entry, t, seq[t] + 1)

\* _log(entry) run in one piece by thread t (the lifecycle threads call it
\* with the lock held, so self.running cannot change under them)
LogEntry(t, entry) ==
    IF ~running
    THEN UNCHANGED << queue_vars, seq, dropped >>
    ELSE /\ seq' = [seq EXCEPT ![t] = @ + 1]
         /\ log_queue' = QueueAfterPut(log_queue, NextEntry(t, entry))
         /\ unfinished' = IF PutAccepted(log_queue) THEN unfinished + 1 ELSE unfinished
         /\ dropped' = IF PutAccepted(log_queue) THEN dropped
                       ELSE dropped \cup {Id(NextEntry(t, entry))}

\* PrintCapture.original of a wrapper
Original(s) == IF s.name = "stderr" THEN original_stderr ELSE original_stdout

\* the real stream a write to s ends on
Target(s) == IF s.kind = "wrap" THEN Original(s) ELSE s

\* print(msg) by thread t: sys.stdout.write(msg), then sys.stdout.write("\n")
PrintMsg(t, msg) ==
    /\ out' = [stream |-> Target(sys_stdout), text |-> <<"\n">>]
    /\ IF sys_stdout.kind = "wrap" /\ NonBlank(msg)
       THEN LogEntry(t, CaptureEntry(sys_stdout.name, msg))
       ELSE UNCHANGED << queue_vars, seq, dropped >>

(* ------------------------------ start() --------------------------------- *)

\* a thread calls start() and reaches `with self.lock`
StartCall(c) ==
    /\ cpc[c] = "idle"
    /\ starts < MaxStarts
    /\ starts' = starts + 1
    /\ cpc' = [cpc EXCEPT ![c] = "startcall"]
    /\ UNCHANGED << capture_print, running, lock, queue_vars, logfile, writer_vars,
                    handlers, log_handler, stream_vars, raised, prod_vars, seq, out,
                    dropped, events, pre_start,
                    dequeued >>

\* start() without its `if self.running` test: it goes on to spawn a writer
StartIgnoresRunning(c) ==
    /\ cpc[c] = "startcall" /\ lock = NoThread
    /\ running
    /\ lock' = c
    /\ cpc' = [cpc EXCEPT ![c] = "spawn"]
    /\ UNCHANGED << capture_print, running, queue_vars, logfile, writer_vars,
                    handlers, log_handler, stream_vars, raised, prod_vars, seq, out,
                    dropped, starts, events, pre_start,
                    dequeued >>

\* start(), lines 74-77: the lock is taken, the logger is running: print,
\* return, the lock is released
StartAlreadyRunning(c) ==
    /\ cpc[c] = "startcall" /\ lock = NoThread
    /\ running
    /\ PrintMsg(c, <<"Logger already running">>)
    /\ cpc' = [cpc EXCEPT ![c] = "idle"]
    /\ raised' = None
    /\ UNCHANGED << capture_print, running, lock, logfile, writer_vars, handlers,
                    log_handler, stream_vars, prod_vars, starts, events,
                    pre_start,
                    dequeued >>

\* start(), lines 74-79: the lock is taken, the logger is stopped: set running
StartBegin(c) ==
    /\ cpc[c] = "startcall" /\ lock = NoThread
    /\ ~running
    /\ lock' = c
    /\ running' = TRUE
    /\ cpc' = [cpc EXCEPT ![c] = "spawn"]
    /\ pre_start' = << sys_stdout, sys_stderr >>
    /\ UNCHANGED << capture_print, queue_vars, logfile, writer_vars, handlers,
                    log_handler, stream_vars, raised, prod_vars, seq, out,
                    dropped, starts, events,
                    dequeued >>

\* start(), lines 82-83: the writer thread is created and started
StartSpawn(c) ==
    /\ cpc[c] = "spawn"
    /\ writer_thread' = writer_thread + 1
    /\ wpc' = [wpc EXCEPT ![writer_thread + 1] = "open"]
    /\ cpc' = [cpc EXCEPT ![c] = "handler"]
    /\ UNCHANGED << capture_print, running, lock, queue_vars, logfile, wentry,
                    handlers, log_handler, stream_vars, raised, prod_vars, seq, out,
                    dropped, starts, events, pre_start,
                    dequeued >>

\* _setup_logging_handler: a new handler is attached to the root logger
StartHandler(c) ==
    /\ cpc[c] = "handler"
    /\ log_handler' = writer_thread
    /\ handlers' = Append(handlers, writer_thread)
    /\ cpc' = [cpc EXCEPT ![c] = "capture"]
    /\ UNCHANGED << capture_print, running, lock, queue_vars, logfile, writer_vars,
                    stream_vars, raised, prod_vars, seq, out, dropped,
                    starts, events, pre_start,
                    dequeued >>

\* start(), lines 94-95, and _setup_print_capture
StartCapture(c) ==
    /\ cpc[c] = "capture"
    /\ IF capture_print
       THEN /\ sys_stdout' = PrintCapture("stdout", writer_thread)
            /\ sys_stderr' = PrintCapture("stderr", writer_thread)
       ELSE UNCHANGED << sys_stdout, sys_stderr >>
    /\ cpc' = [cpc EXCEPT ![c] = "log"]
    /\ UNCHANGED << capture_print, running, lock, queue_vars, logfile, writer_vars,
                    handlers, log_handler, original_stdout, original_stderr, raised,
                    prod_vars, seq, out, dropped, starts, events,
                    pre_start,
                    dequeued >>

\* start(), lines 98-103: the startup record
StartLog(c) ==
    /\ cpc[c] = "log"
    /\ LogEntry(c, StartupEntry)
    /\ cpc' = [cpc EXCEPT ![c] = "print"]
    /\ UNCHANGED << capture_print, running, lock, logfile, writer_vars, handlers,
                    log_handler, stream_vars, raised, prod_vars, out, starts, events,
                    pre_start,
                    dequeued >>

\* start(), line 105, and the release of the lock
StartPrint(c) ==
    /\ cpc[c] = "print"
    /\ PrintMsg(c, <<"Structured logging started">>)
    /\ lock' = NoThread
    /\ cpc' = [cpc EXCEPT ![c] = "idle"]
    /\ raised' = None
    /\ UNCHANGED << capture_print, running, logfile, writer_vars, handlers,
                    log_handler, stream_vars, prod_vars, starts, events, pre_start,
                    dequeued >>

(* ------------------------------- stop() --------------------------------- *)

\* a removeHandler that leaves the handler attached
KeepHandler(hs, h) == hs

\* Logger.removeHandler: the first occurrence of h leaves the list
RECURSIVE RemoveHandler(_, _)
RemoveHandler(hs, h) ==
    IF hs = <<>> THEN <<>>
    ELSE IF Head(hs) = h THEN Tail(hs)
    ELSE <<Head(hs)>> \o RemoveHandler(Tail(hs), h)

\* a thread calls stop() and reaches `with self.lock`
StopCall(c) ==
    /\ cpc[c] = "idle"
    /\ cpc' = [cpc EXCEPT ![c] = "stopcall"]
    /\ UNCHANGED << capture_print, running, lock, queue_vars, logfile, writer_vars,
                    handlers, log_handler, stream_vars, raised, prod_vars, seq, out,
                    dropped, starts, events, pre_start,
                    dequeued >>

\* stop() without its `if not self.running` test: it goes on to shut down
StopIgnoresRunning(c) ==
    /\ cpc[c] = "stopcall" /\ lock = NoThread
    /\ ~running
    /\ lock' = c
    /\ cpc' = [cpc EXCEPT ![c] = "stoplog"]
    /\ UNCHANGED << capture_print, running, queue_vars, logfile, writer_vars,
                    handlers, log_handler, stream_vars, raised, prod_vars, seq, out,
                    dropped, starts, events, pre_start,
                    dequeued >>

\* stop(), lines 109-111: the lock is taken, the logger is not running:
\* return, the lock is released
StopNotRunning(c) ==
    /\ cpc[c] = "stopcall" /\ lock = NoThread
    /\ ~running
    /\ cpc' = [cpc EXCEPT ![c] = "idle"]
    /\ raised' = None
    /\ UNCHANGED << capture_print, running, lock, queue_vars, logfile, writer_vars,
                    handlers, log_handler, stream_vars, prod_vars, seq, out,
                    dropped, starts, events, pre_start,
                    dequeued >>

\* stop(), lines 109-110: the lock is taken, the logger is running
StopBegin(c) ==
    /\ cpc[c] = "stopcall" /\ lock = NoThread
    /\ running
    /\ lock' = c
    /\ cpc' = [cpc EXCEPT ![c] = "stoplog"]
    /\ UNCHANGED << capture_print, running, queue_vars, logfile, writer_vars,
                    handlers, log_handler, stream_vars, raised, prod_vars, seq, out,
                    dropped, starts, events, pre_start,
                    dequeued >>

\* stop(), lines 114-119: the shutdown record
StopLog(c) ==
    /\ cpc[c] = "stoplog"
    /\ LogEntry(c, ShutdownEntry)
    /\ cpc' = [cpc EXCEPT ![c] = "flag"]
    /\ UNCHANGED << capture_print, running, lock, logfile, writer_vars, handlers,
                    log_handler, stream_vars, raised, prod_vars, out, starts, events,
                    pre_start,
                    dequeued >>

\* stop(), line 121
StopFlag(c) ==
    /\ cpc[c] = "flag"
    /\ running' = FALSE
    /\ cpc' = [cpc EXCEPT ![c] = "remove"]
    /\ UNCHANGED << capture_print, lock, queue_vars, logfile, writer_vars, handlers,
                    log_handler, stream_vars, raised, prod_vars, seq, out, dropped, starts, events, pre_start,
                    dequeued >>

\* stop(), lines 129-130
StopRemove(c) ==
    /\ cpc[c] = "remove"
    /\ handlers' = IF log_handler # 0 THEN RemoveHandler(handlers, log_handler)
                   ELSE handlers
    /\ cpc' = [cpc EXCEPT ![c] = "restore"]
    /\ UNCHANGED << capture_print, running, lock, queue_vars, logfile, writer_vars,
                    log_handler, stream_vars, raised, prod_vars, seq, out, dropped, starts, events, pre_start,
                    dequeued >>

\* the objects stop() puts back into sys.stdout, sys.stderr
Restored == << original_stdout, original_stderr >>

\* stop(), lines 133-135
StopRestore(c) ==
    /\ cpc[c] = "restore"
    /\ IF capture_print
       THEN /\ sys_stdout' = Restored[1]
            /\ sys_stderr' = Restored[2]
       ELSE UNCHANGED << sys_stdout, sys_stderr >>
    /\ cpc' = [cpc EXCEPT ![c] = "join"]
    /\ UNCHANGED << capture_print, running, lock, queue_vars, logfile, writer_vars,
                    handlers, log_handler, original_stdout, original_stderr, raised,
                    prod_vars, seq, out, dropped, starts, events,
                    pre_start,
                    dequeued >>

\* Queue.join() returns when no task is unfinished
JoinReturns == unfinished = 0

\* stop(), lines 138-140: log_queue.join(), print, release of the lock
StopJoin(c) ==
    /\ cpc[c] = "join"
    /\ JoinReturns
    /\ PrintMsg(c, <<"Structured logging stopped">>)
    /\ lock' = NoThread
    /\ cpc' = [cpc EXCEPT ![c] = "idle"]
    /\ raised' = None
    /\ UNCHANGED << capture_print, running, logfile, writer_vars, handlers,
                    log_handler, stream_vars, prod_vars, starts, events, pre_start,
                    dequeued >>

(* ----------------------------- producers -------------------------------- *)

\* log(level, message): the entry is built and handed to _log
CallLog(p) ==
    /\ ppc[p] = "idle" /\ calls[p] < MaxSubmit
    /\ calls' = [calls EXCEPT ![p] = @ + 1]
    /\ pentry' = [pentry EXCEPT ![p] = ManualEntry]
    /\ ppc' = [ppc EXCEPT ![p] = "check"]
    /\ UNCHANGED << capture_print, running, lock, queue_vars, logfile, writer_vars,
                    handlers, log_handler, stream_vars, cpc, raised, seq, out,
                    dropped, starts, events, pre_start,
                    dequeued >>

\* log(level, "m", **kwargs): the entry is built and handed to _log
CallLogWith(p, level, kwargs) ==
    /\ ppc[p] = "idle" /\ calls[p] < MaxSubmit
    /\ calls' = [calls EXCEPT ![p] = @ + 1]
    /\ pentry' = [pentry EXCEPT ![p] = LogCallEntry(level, <<"m">>, kwargs)]
    /\ ppc' = [ppc EXCEPT ![p] = "check"]
    /\ UNCHANGED << capture_print, running, lock, queue_vars, logfile, writer_vars,
                    handlers, log_handler, stream_vars, cpc, raised, seq, out,
                    dropped, starts, events, pre_start,
                    dequeued >>

\* logging.warning(...): the root logger calls the attached handler's emit,
\* which builds the entry and hands it to _log
CallLogging(p) ==
    /\ ppc[p] = "idle" /\ calls[p] < MaxSubmit
    /\ calls' = [calls EXCEPT ![p] = @ + 1]
    /\ IF handlers # <<>>
       THEN /\ pentry' = [pentry EXCEPT ![p] = EmitEntry]
            /\ ppc' = [ppc EXCEPT ![p] = "check"]
       ELSE UNCHANGED << pentry, ppc >>
    /\ UNCHANGED << capture_print, running, lock, queue_vars, logfile, writer_vars,
                    handlers, log_handler, stream_vars, cpc, raised, seq, out,
                    dropped, starts, events, pre_start,
                    dequeued >>

\* the object a stream name refers to
Stream(name) == IF name = "stderr" THEN sys_stderr ELSE sys_stdout

\* sys.stdout.write(text) / sys.stderr.write(text): on a wrapper this is
\* PrintCapture.write up to its call of _log
CallWrite(p, name, text) ==
    /\ ppc[p] = "idle" /\ calls[p] < MaxSubmit
    /\ calls' = [calls EXCEPT ![p] = @ + 1]
    /\ out' = [stream |-> Target(Stream(name)), text |-> text]
    /\ IF Stream(name).kind = "wrap" /\ NonBlank(text)
       THEN /\ pentry' = [pentry EXCEPT ![p] = CaptureEntry(Stream(name).name, text)]
            /\ ppc' = [ppc EXCEPT ![p] = "check"]
       ELSE UNCHANGED << pentry, ppc >>
    /\ UNCHANGED << capture_print, running, lock, queue_vars, logfile, writer_vars,
                    handlers, log_handler, stream_vars, cpc, raised, seq, dropped, starts, events, pre_start,
                    dequeued >>

\* _log without its `if not self.running` test: every entry is stamped
LogCheckIgnoresRunning(p) ==
    /\ ppc[p] = "check"
    /\ pentry' = [pentry EXCEPT ![p] = NextEntry(p, pentry[p])]
    /\ seq' = [seq EXCEPT ![p] = @ + 1]
    /\ ppc' = [ppc EXCEPT ![p] = "put"]
    /\ UNCHANGED << capture_print, running, lock, queue_vars, logfile, writer_vars,
                    handlers, log_handler, stream_vars, cpc, raised, calls, out,
                    dropped, starts, events, pre_start,
                    dequeued >>

\* _log, lines 243-255: the running check and the stamping
LogCheck(p) ==
    /\ ppc[p] = "check"
    /\ IF running
       THEN /\ pentry' = [pentry EXCEPT ![p] = NextEntry(p, pentry[p])]
            /\ seq' = [seq EXCEPT ![p] = @ + 1]
            /\ ppc' = [ppc EXCEPT ![p] = "put"]
       ELSE /\ pentry' = [pentry EXCEPT ![p] = NoEntry]
            /\ ppc' = [ppc EXCEPT ![p] = "idle"]
            /\ UNCHANGED seq
    /\ UNCHANGED << capture_print, running, lock, queue_vars, logfile, writer_vars,
                    handlers, log_handler, stream_vars, cpc, raised, calls, out,
                    dropped, starts, events, pre_start,
                    dequeued >>

\* a _log that enqueues under self.lock: it waits while start() or stop()
\* holds the lock
LogPutUnderLock(p) ==
    /\ ppc[p] = "put"
    /\ lock = NoThread
    /\ log_queue' = QueueAfterPut(log_queue, pentry[p])
    /\ unfinished' = IF PutAccepted(log_queue) THEN unfinished + 1 ELSE unfinished
    /\ dropped' = IF PutAccepted(log_queue) THEN dropped ELSE dropped \cup {Id(pentry[p])}
    /\ pentry' = [pentry EXCEPT ![p] = NoEntry]
    /\ ppc' = [ppc EXCEPT ![p] = "idle"]
    /\ UNCHANGED << capture_print, running, lock, logfile, writer_vars, handlers,
                    log_handler, stream_vars, cpc, raised, calls, seq, out, starts, events, pre_start,
                    dequeued >>

\* _log, lines 258-262: put_nowait, a full queue is passed over
LogPut(p) ==
    /\ ppc[p] = "put"
    /\ log_queue' = QueueAfterPut(log_queue, pentry[p])
    /\ unfinished' = IF PutAccepted(log_queue) THEN unfinished + 1 ELSE unfinished
    /\ dropped' = IF PutAccepted(log_queue) THEN dropped ELSE dropped \cup {Id(pentry[p])}
    /\ pentry' = [pentry EXCEPT ![p] = NoEntry]
    /\ ppc' = [ppc EXCEPT ![p] = "idle"]
    /\ UNCHANGED << capture_print, running, lock, logfile, writer_vars, handlers,
                    log_handler, stream_vars, cpc, raised, calls, seq, out, starts, events, pre_start,
                    dequeued >>

(* ------------------------------- writer --------------------------------- *)

\* _log_writer, line 266: open(self.log_file, 'a') succeeds or raises
WriterOpen(w) ==
    /\ wpc[w] = "open"
    /\ \E ok \in BOOLEAN : wpc' = [wpc EXCEPT ![w] = IF ok THEN "loop" ELSE "crashed"]
    /\ UNCHANGED << capture_print, running, lock, queue_vars, logfile, writer_thread,
                    wentry, handlers, log_handler, stream_vars, cpc, raised, prod_vars,
                    seq, out, dropped, starts, events, pre_start,
                    dequeued >>

\* _log_writer, line 267: `self.running`
WriterTestRunning(w) ==
    /\ wpc[w] = "loop"
    /\ wpc' = [wpc EXCEPT ![w] = IF WriterSeesRunning(running) THEN "get" ELSE "loop2"]
    /\ UNCHANGED << capture_print, running, lock, queue_vars, logfile, writer_thread,
                    wentry, handlers, log_handler, stream_vars, cpc, raised, prod_vars,
                    seq, out, dropped, starts, events, pre_start,
                    dequeued >>

\* _log_writer, line 267: `not self.log_queue.empty()`; the loop ends, and
\* the file is closed, when the queue is empty
WriterTestQueue(w) ==
    /\ wpc[w] = "loop2"
    /\ wpc' = [wpc EXCEPT ![w] = IF WriterSeesBacklog(log_queue) THEN "get" ELSE "exited"]
    /\ UNCHANGED << capture_print, running, lock, queue_vars, logfile, writer_thread,
                    wentry, handlers, log_handler, stream_vars, cpc, raised, prod_vars,
                    seq, out, dropped, starts, events, pre_start,
                    dequeued >>

\* _log_writer, line 270: get returns the oldest entry
WriterGet(w) ==
    /\ wpc[w] = "get"
    /\ log_queue # <<>>
    /\ wentry' = [wentry EXCEPT ![w] = Head(log_queue)]
    /\ log_queue' = Tail(log_queue)
    /\ dequeued' = Append(dequeued, [w |-> w, id |-> Id(Head(log_queue))])
    /\ wpc' = [wpc EXCEPT ![w] = "write"]
    /\ UNCHANGED << capture_print, running, lock, unfinished, logfile, writer_thread,
                    handlers, log_handler, stream_vars, cpc, raised, prod_vars, seq,
                    out, dropped, starts, events, pre_start >>

\* _log_writer, lines 270, 279-280: get times out on an empty queue
WriterTimeout(w) ==
    /\ wpc[w] = "get"
    /\ log_queue = <<>>
    /\ wpc' = [wpc EXCEPT ![w] = "loop"]
    /\ UNCHANGED << capture_print, running, lock, queue_vars, logfile, writer_thread,
                    wentry, handlers, log_handler, stream_vars, cpc, raised, prod_vars,
                    seq, out, dropped, starts, events, pre_start,
                    dequeued >>

\* _log_writer, lines 273-278: the line is written and flushed, task_done
WriterWrite(w) ==
    /\ wpc[w] = "write"
    /\ logfile' = Append(logfile, wentry[w])
    /\ unfinished' = unfinished - 1
    /\ wentry' = [wentry EXCEPT ![w] = NoEntry]
    /\ wpc' = [wpc EXCEPT ![w] = "loop"]
    /\ UNCHANGED << capture_print, running, lock, log_queue, writer_thread, handlers,
                    log_handler, stream_vars, cpc, raised, prod_vars, seq, out,
                    dropped, starts, events, pre_start,
                    dequeued >>

\* a writer whose loop has no try/except: the error ends the thread
WriterDiesOnError(w) ==
    /\ wpc[w] = "write"
    /\ events < MaxEvents
    /\ events' = events + 1
    /\ \E written \in BOOLEAN :
          logfile' = IF written THEN Append(logfile, wentry[w]) ELSE logfile
    /\ wentry' = [wentry EXCEPT ![w] = NoEntry]
    /\ wpc' = [wpc EXCEPT ![w] = "crashed"]
    /\ UNCHANGED << capture_print, running, lock, queue_vars, writer_thread, handlers,
                    log_handler, stream_vars, cpc, raised, prod_vars, seq, out,
                    dropped, starts, pre_start,
                    dequeued >>

\* _log_writer, lines 273-276, 279-280: json.dumps, write or flush raises;
\* the line reaches the file or not, task_done is not called
WriterWriteFails(w) ==
    /\ wpc[w] = "write"
    /\ events < MaxEvents
    /\ events' = events + 1
    /\ \E written \in BOOLEAN :
          logfile' = IF written THEN Append(logfile, wentry[w]) ELSE logfile
    /\ wentry' = [wentry EXCEPT ![w] = NoEntry]
    /\ wpc' = [wpc EXCEPT ![w] = "loop"]
    /\ UNCHANGED << capture_print, running, lock, queue_vars, writer_thread, handlers,
                    log_handler, stream_vars, cpc, raised, prod_vars, seq, out,
                    dropped, starts, pre_start,
                    dequeued >>

(* ---------------------------- environment ------------------------------- *)

\* other code of the process installs its own sys.stdout / sys.stderr while
\* the logger is stopped
ReplaceStreams ==
    /\ ~running /\ lock = NoThread
    /\ events < MaxEvents
    /\ events' = events + 1
    /\ sys_stdout = RealStream("stdout", 0)
    /\ sys_stdout' = RealStream("stdout", 1)
    /\ sys_stderr' = RealStream("stderr", 1)
    /\ UNCHANGED << capture_print, running, lock, queue_vars, logfile, writer_vars,
                    handlers, log_handler, original_stdout, original_stderr, cpc,
                    raised, prod_vars, seq, out, dropped, starts, pre_start,
                    dequeued >>

(* --------------------------- specification ------------------------------ *)

\* start() and stop() once the call has been made
Lifecycle ==
    \/ \E c \in Ctl : StartAlreadyRunning(c)
    \/ \E c \in Ctl : StartBegin(c)
    \/ \E c \in Ctl : StartSpawn(c)
    \/ \E c \in Ctl : StartHandler(c)
    \/ \E c \in Ctl : StartCapture(c)
    \/ \E c \in Ctl : StartLog(c)
    \/ \E c \in Ctl : StartPrint(c)
    \/ \E c \in Ctl : StopCall(c)
    \/ \E c \in Ctl : StopNotRunning(c)
    \/ \E c \in Ctl : StopBegin(c)
    \/ \E c \in Ctl : StopLog(c)
    \/ \E c \in Ctl : StopFlag(c)
    \/ \E c \in Ctl : StopRemove(c)
    \/ \E c \in Ctl : StopRestore(c)
    \/ \E c \in Ctl : StopJoin(c)

\* _log as the producer threads run it
Submit ==
    \/ \E p \in Prod : LogCheck(p)
    \/ \E p \in Prod : LogPut(p)

\* _log_writer with a file system that works once the file is open
Writer ==
    \/ \E w \in Writers : WriterOpen(w)
    \/ \E w \in Writers : WriterTestRunning(w)
    \/ \E w \in Writers : WriterTestQueue(w)
    \/ \E w \in Writers : WriterGet(w)
    \/ \E w \in Writers : WriterTimeout(w)
    \/ \E w \in Writers : WriterWrite(w)

\* the calls of the producer threads, one text for the stream
Calls ==
    \/ \E p \in Prod : CallLog(p)
    \/ \E p \in Prod : CallLogging(p)
    \/ \E p \in Prod : CallWrite(p, "stdout", <<"h", "\n">>)

\* what the surroundings of the logger do
Environment ==
    \/ \E w \in Writers : WriterWriteFails(w)
    \/ ReplaceStreams

\* every run of the logger: start() and stop() in any order, restarts
\* included
Next ==
    \/ \E c \in Ctl : StartCall(c)
    \/ Lifecycle
    \/ Calls
    \/ Submit
    \/ Writer
    \/ Environment

Spec == Init /\ [][Next]_vars

\* the lifecycle on its own: start() and stop() in any order, restarts
\* included, and the writers they spawn; the only entries are the startup
\* and shutdown records
NextLifecycle ==
    \/ \E c \in Ctl : StartCall(c)
    \/ Lifecycle
    \/ Writer

SpecLifecycle == Init /\ [][NextLifecycle]_vars

\* start() called on a logger that was never started, or that is running
StartCallInPeriod(c) == StartCall(c) /\ (writer_thread = 0 \/ running)

\* the runs with one running period: start(), further start() calls while
\* it runs, stop(), further stop() calls
NextPeriod ==
    \/ \E c \in Ctl : StartCallInPeriod(c)
    \/ Lifecycle
    \/ Calls
    \/ Submit
    \/ Writer
    \/ Environment

SpecPeriod == Init /\ [][NextPeriod]_vars

\* the stream-capture workload: the logger is built with capture_print=True,
\* runs for one period, and the producers write every text of Texts to both
\* streams
InitStream == Init /\ capture_print

NextStream ==
    \/ \E c \in Ctl : StartCallInPeriod(c)
    \/ Lifecycle
    \/ \E p \in Prod, name \in {"stdout", "stderr"}, text \in Texts :
          CallWrite(p, name, text)
    \/ Submit
    \/ Writer

SpecStream == InitStream /\ [][NextStream]_vars

\* the manual-logging workload: one running period, and the producers call
\* log() with every level of Levels and every **kwargs of Kwargs
NextManual ==
    \/ \E c \in Ctl : StartCallInPeriod(c)
    \/ Lifecycle
    \/ \E p \in Prod, level \in Levels, kwargs \in Kwargs :
          CallLogWith(p, level, kwargs)
    \/ Submit
    \/ Writer

SpecManual == Init /\ [][NextManual]_vars

(* ------------------------------ fairness -------------------------------- *)

\* the next statement of a start() or stop() call that is under way
Proceed(c) ==
    \/ StartAlreadyRunning(c) \/ StartBegin(c) \/ StartSpawn(c) \/ StartHandler(c)
    \/ StartCapture(c) \/ StartLog(c) \/ StartPrint(c)
    \/ StopNotRunning(c) \/ StopBegin(c) \/ StopLog(c) \/ StopFlag(c)
    \/ StopRemove(c) \/ StopRestore(c) \/ StopJoin(c)

\* the next statement of writer thread w
WriterStep(w) ==
    \/ WriterOpen(w) \/ WriterTestRunning(w) \/ WriterTestQueue(w)
    \/ WriterGet(w) \/ WriterTimeout(w) \/ WriterWrite(w)

\* the next statement of a _log call that is under way
SubmitStep(p) == LogCheck(p) \/ LogPut(p)

\* the scheduler lets every thread that can run its next statement run it;
\* when callers call and when the environment fails is up to them
Fairness ==
    /\ \A c \in Ctl : WF_vars(Proceed(c))
    /\ \A w \in Writers : WF_vars(WriterStep(w))
    /\ \A p \in Prod : WF_vars(SubmitStep(p))

\* the runs with one running period under a fair scheduler
SpecFair == SpecPeriod /\ Fairness

\* the drain workload under a fair scheduler: a logger without stream
\* capture runs for one period, the producers call log(), and writes to the
\* file may raise
InitDrain == Init /\ ~capture_print

NextDrain ==
    \/ \E c \in Ctl : StartCallInPeriod(c)
    \/ Lifecycle
    \/ \E p \in Prod : CallLog(p)
    \/ Submit
    \/ Writer
    \/ \E w \in Writers : WriterWriteFails(w)

SpecDrain == InitDrain /\ [][NextDrain]_vars /\ Fairness

(* ------------------------ vocabulary of the claims ---------------------- *)

\* the entries that passed the running check of _log, by identity
AcceptedIds == { id \in Threads \X (1..(MaxStarts * 3 + MaxSubmit)) : id[2] <= seq[id[1]] }

\* the lines of the file that hold the entry with identity id
LinesOf(id) == { i \in DOMAIN logfile : Id(logfile[i]) = id }

\* a writer thread that has been started and has not ended
Alive(w) == wpc[w] \in {"open", "loop", "loop2", "get", "write"}

\* no start() or stop() call is under way: the lock is free
NoCallUnderWay == lock = NoThread /\ \A c \in Ctl : cpc[c] \in {"idle", "startcall", "stopcall"}

\* the logger is stopped and the stop() that stopped it has returned
StopReturned == NoCallUnderWay /\ ~running /\ writer_thread > 0

(* -------------------------------- C1 ------------------------------------ *)

\* C1: when at most Capacity entries were submitted while running, then once
\* stop() has returned and every submitting call has returned, each of those
\* entries is exactly one line of the file.
C1_NoLossUnderCapacity ==
    ( /\ StopReturned
      /\ \A p \in Prod : ppc[p] = "idle"
      /\ Cardinality(AcceptedIds) <= Capacity )
    => \A id \in AcceptedIds : Cardinality(LinesOf(id)) = 1

(* -------------------------------- C2 ------------------------------------ *)

\* C2: whenever stop() has returned, no writer thread is alive.
C2_StopWaitsForWriter ==
    StopReturned => \A w \in Writers : ~Alive(w)

(* -------------------------------- C3 ------------------------------------ *)

\* C3: at most one writer thread is alive at any time.
C3_AtMostOneWriter ==
    Cardinality({ w \in Writers : Alive(w) }) <= 1

(* -------------------------------- C4 ------------------------------------ *)

\* the step in which start(), called by c, finds the logger running
StartFindsRunning(c) == cpc[c] = "startcall" /\ running /\ cpc'[c] # "startcall"

C5_OpenFailureSurfaced ==
    ( /\ writer_thread > 0
      /\ wpc[IF writer_thread > 0 THEN writer_thread ELSE 1] = "crashed"
      /\ NoCallUnderWay )
    => (raised # None /\ ~running)

(* -------------------------------- C6 ------------------------------------ *)

\* the step in which stop(), called by c, finds the logger stopped
StopFindsStopped(c) == cpc[c] = "stopcall" /\ ~running /\ cpc'[c] # "stopcall"

\* C6: stop() on a stopped logger returns without raising and changes
\* nothing: no entry is stamped, queued, dropped or written, no handler or
\* stream is touched.
C6_StopIdempotent ==
    [][\A c \in Ctl : StopFindsStopped(c) =>
          /\ cpc'[c] = "idle"
          /\ raised' = None
          /\ UNCHANGED << running, lock, queue_vars, logfile, writer_vars, handlers,
                          log_handler, stream_vars, seq, dropped, out >>]_vars

\* stop() is called again after a stop() that shut the logger down and whose
\* shutdown record is in the file
C6_Witness ==
    /\ \E c \in Ctl : cpc[c] = "stopcall"
    /\ ~running /\ lock = NoThread
    /\ \E i \in DOMAIN logfile : logfile[i].body = ShutdownEntry.body

(* -------------------------------- C7 ------------------------------------ *)

\* C7: a producer that reaches put_nowait can always take that step; when
\* the queue holds Capacity entries the step leaves the queue as it is and
\* ends the call, the entry counts as dropped, and no dropped entry is ever a
\* line of the file.
C7_DropNewest ==
    /\ [](\A p \in Prod : ppc[p] = "put" => ENABLED LogPut(p))
    /\ [][\A p \in Prod :
             (ppc[p] = "put" /\ Len(log_queue) >= Capacity /\ ppc'[p] # "put") =>
                /\ ppc'[p] = "idle"
                /\ UNCHANGED << queue_vars, logfile, raised >>
                /\ Id(pentry[p]) \in dropped']_vars
    /\ [](\A i \in DOMAIN logfile : Id(logfile[i]) \notin dropped)

\* a producer's entry met a full queue and was dropped; the call has
\* returned and the queue still holds Capacity entries
C7_Witness ==
    /\ Len(log_queue) = Capacity
    /\ \E id \in dropped : id[1] \in Prod /\ ppc[id[1]] = "idle"

(* -------------------------------- C8 ------------------------------------ *)

\* C8: two lines of the file that come from one thread are in the order in
\* which that thread submitted them.
C8_FifoPerThread ==
    \A i, j \in DOMAIN logfile :
        ( /\ logfile[i].thread_id = logfile[j].thread_id
          /\ logfile[i].timestamp < logfile[j].timestamp ) => i < j

(* -------------------------------- C9 ------------------------------------ *)

\* C9: with stream capture on, at the step in which stop() returns,
\* sys.stdout and sys.stderr are the objects they were when the matching
\* start() began.
C9_RestoreInvariant ==
    [][\A c \in Ctl :
          (capture_print /\ cpc[c] = "join" /\ cpc'[c] = "idle") =>
             << sys_stdout', sys_stderr' >> = pre_start]_vars

(* -------------------------------- C10 ----------------------------------- *)

\* the fields the claim speaks of, for a write of text to the wrapper of
\* the stream called name, with the given source
FidelityOf(p, name, text, source) ==
    /\ out' = [stream |-> Original(Stream(name)), text |-> text]
    /\ IF NonBlank(text)
       THEN /\ ppc'[p] = "check"
            /\ pentry'[p].body = rstrip(text)
            /\ pentry'[p].severity_text = (IF name = "stderr" THEN "ERROR" ELSE "INFO")
            /\ pentry'[p].source = source
            /\ pentry'[p].stream = name
       ELSE ppc'[p] = "idle" /\ pentry'[p] = pentry[p]

LogFindsStopped(p) == ppc[p] = "check" /\ ~running /\ ppc'[p] # "check"

\* the entries on their way to the file, and the lines of the file
Held ==
    { log_queue[i] : i \in DOMAIN log_queue } \cup
    { logfile[i] : i \in DOMAIN logfile } \cup
    { wentry[w] : w \in { x \in Writers : wpc[x] = "write" } } \cup
    { pentry[q] : q \in { x \in Prod : ppc[x] = "put" } }

\* C11: a submission that reaches _log while the logger is not running
\* returns without raising, is not stamped, and leaves the queue, the file
\* and the drop record as they are; every entry in the queue, in a writer's
\* hands or in the file, in any later state and after any later start(), is
\* one that _log stamped while the logger was running.
C11_StoppedDiscards ==
    /\ [][\A p \in Prod : LogFindsStopped(p) =>
             /\ ppc'[p] = "idle"
             /\ pentry'[p] = NoEntry
             /\ UNCHANGED << queue_vars, logfile, wentry, seq, dropped, raised >>]_vars
    /\ [](\A e \in Held : Id(e) \in AcceptedIds)

\* "h\n" was written to the stdout wrapper after stop() had set running to
\* False and before it restored the streams; the call has returned, nothing
\* of the producer was stamped
C11_Witness ==
    /\ capture_print /\ ~running
    /\ \E c \in Ctl : cpc[c] = "restore"
    /\ sys_stdout.kind = "wrap"
    /\ out.text = <<"h", "\n">>
    /\ \E p \in Prod : ppc[p] = "idle" /\ calls[p] = 1 /\ seq[p] = 0

(* -------------------------------- C12 ----------------------------------- *)

\* the step in which json.dumps, write or flush raises in writer w
WriteRaises(w) == wpc[w] = "write" /\ wpc'[w] # "write" /\ events' # events

\* the entry that get() call k returned is in the hands of the writer
InHands(k) ==
    wpc[dequeued[k].w] = "write" /\ Id(wentry[dequeued[k].w]) = dequeued[k].id

\* the get() calls whose entry the writer has let go of and is no line of
\* the file
Missing == { k \in DOMAIN dequeued : ~InHands(k) /\ LinesOf(dequeued[k].id) = {} }

\* the line of the file that holds the entry with identity id
LineOf(id) == CHOOSE i \in LinesOf(id) : TRUE

\* C12: the step in which serialising or writing an entry raises leaves the
\* writer in its loop; no more dequeued entries are missing from the file
\* than writes have raised, so every entry a writer dequeues after a failed
\* one becomes a line; and the lines of the entries one writer dequeued are
\* in the order in which it dequeued them.
C12_WriterSurvivesError ==
    /\ [][\A w \in Writers : WriteRaises(w) => wpc'[w] = "loop"]_vars
    /\ [](Cardinality(Missing) <= events)
    /\ [](\A i, j \in DOMAIN dequeued :
            ( /\ i < j /\ dequeued[i].w = dequeued[j].w
              /\ LinesOf(dequeued[i].id) # {} /\ LinesOf(dequeued[j].id) # {} )
            => LineOf(dequeued[i].id) < LineOf(dequeued[j].id))

\* an entry's write raised and left no line; the same writer went on,
\* dequeued a later entry and wrote it
C12_Witness ==
    \E i, j \in DOMAIN dequeued :
        /\ i < j /\ dequeued[i].w = dequeued[j].w
        /\ i \in Missing
        /\ LinesOf(dequeued[j].id) # {}

(* -------------------------------- C13 ----------------------------------- *)

\* start() has set running and has not yet attached its handler
BeforeRegistration == \E c \in Ctl : cpc[c] \in {"spawn", "handler"}

\* C13: at most one handler of this logger is attached to the root logger
\* in every state; while running is True, from the registration in start()
\* on, exactly one is attached and it is self.log_handler; and when the
\* logger is not running and no start() or stop() is under way, none is.
C13_OneHandler ==
    /\ Len(handlers) <= 1
    /\ (running /\ ~BeforeRegistration) => handlers = << log_handler >>
    /\ (~running /\ NoCallUnderWay) => handlers = <<>>

\* start(), stop(), start() have returned: the handler of the second
\* start() is the one attached
C13_Witness ==
    /\ starts = 2 /\ writer_thread = 2
    /\ running /\ NoCallUnderWay
    /\ handlers = << 2 >>

(* -------------------------------- C14 ----------------------------------- *)

\* the step in which stop(), called by c, returns after a shutdown
StopReturns(c) == cpc[c] = "join" /\ cpc'[c] = "idle"

\* C14: at the step in which a stop() that found the logger running
\* returns, the shutdown record that call handed to _log is a line of the
\* file.
C14_ShutdownRecorded ==
    [][\A c \in Ctl : StopReturns(c) =>
          \E i \in DOMAIN logfile' :
             /\ Id(logfile'[i]) = << c, seq[c] >>
             /\ logfile'[i].body = ShutdownEntry.body]_vars

(* -------------------------------- C15 ----------------------------------- *)

\* C15: whenever stop() has returned and no start() has begun since, the
\* queue is empty and no writer holds an entry it is about to append to the
\* file.
C15_QuietAfterStop ==
    StopReturned =>
        /\ log_queue = <<>>
        /\ \A w \in Writers : wpc[w] # "write"

(* -------------------------------- C16 ----------------------------------- *)

\* C16: a producer inside _log can take its next step in every state,
\* whoever holds the lock, whatever start() or stop() is doing and however
\* many entries the queue holds: the running test ends the call or leads to
\* put_nowait, put_nowait ends the call, and neither step touches the lock.
C16_SubmitNeverWaits ==
    /\ [](\A p \in Prod : ppc[p] = "check" => ENABLED LogCheck(p))
    /\ [](\A p \in Prod : ppc[p] = "put" => ENABLED LogPut(p))
    /\ [][\A p \in Prod :
             /\ (ppc[p] = "check" /\ ppc'[p] # "check") =>
                   (ppc'[p] \in {"put", "idle"} /\ lock' = lock)
             /\ (ppc[p] = "put" /\ ppc'[p] # "put") =>
                   (ppc'[p] = "idle" /\ lock' = lock)]_vars

\* the first start() still holds the lock, and a producer's submission has
\* gone through _log from the running test to put_nowait and returned
C16_Witness ==
    /\ starts = 1 /\ writer_thread = 1
    /\ \E c \in Ctl : lock = c /\ cpc[c] = "print"
    /\ \E p \in Prod : ppc[p] = "idle" /\ seq[p] = 1

(* -------------------------------- C17 ----------------------------------- *)

\* C17: of two entries that are lines of the file, the one a get() call
\* returned first is the earlier line, whichever writers dequeued them.
C17_FileOrderIsDequeueOrder ==
    \A i, j \in DOMAIN dequeued :
        ( /\ i < j
          /\ LinesOf(dequeued[i].id) # {} /\ LinesOf(dequeued[j].id) # {} )
        => LineOf(dequeued[i].id) < LineOf(dequeued[j].id)

(* -------------------------------- C18 ----------------------------------- *)

\* the keys _log stamps
Mandatory == {"timestamp", "thread_id", "thread_name"}

\* the step in which _log, run by p, finds the logger running and stamps
LogStamps(p) == ppc[p] = "check" /\ ppc'[p] = "put"

\* the step in which put_nowait, run by p, enqueues the entry
LogEnqueues(p) == ppc[p] = "put" /\ ppc'[p] = "idle" /\ Len(log_queue') = Len(log_queue) + 1

\* C18: the entry _log enqueues has timestamp = the clock reading of the
\* submitting thread at the call, thread_id and thread_name = that thread,
\* whatever the caller put under those keys, and every other key holds what
\* the caller supplied; put_nowait enqueues that entry as it is.
C18_MandatoryStamping ==
    [][\A p \in Prod :
          /\ LogStamps(p) =>
                /\ pentry'[p].timestamp = seq[p] + 1
                /\ pentry'[p].thread_id = p
                /\ pentry'[p].thread_name = p
                /\ \A k \in DOMAIN NoEntry \ Mandatory : pentry'[p][k] = pentry[p][k]
          /\ LogEnqueues(p) => log_queue'[Len(log_queue')] = pentry[p]]_vars

\* log("Error", "m", body="k", thread_name="main") by p1 is a line of the
\* file: it has the caller's body and the level in upper case, and p1 and
\* its clock in the stamped fields
C18_Witness ==
    \E i \in DOMAIN logfile :
        /\ logfile[i].body = <<"k">>
        /\ logfile[i].severity_text = "ERROR"
        /\ logfile[i].thread_id = "p1" /\ logfile[i].thread_name = "p1"
        /\ logfile[i].timestamp = 1

(* -------------------------------- C19 ----------------------------------- *)

\* C19: under a fair scheduler, a stop() call that found the logger running
\* eventually returns and has released the lock.
C19_StopTerminates ==
    \A c \in Ctl : (cpc[c] = "stoplog") ~> (cpc[c] = "idle" /\ lock = NoThread)

(* -------------------------------- C20 ----------------------------------- *)

\* writer w is inside the loop of _log_writer
InLoop(w) == wpc[w] \in {"loop", "loop2", "get", "write"}

\* the step in which writer w leaves its loop and closes the file
WriterExits(w) == wpc[w] # "exited" /\ wpc'[w] = "exited"

\* C20: with one running period (no start() follows the stop()), under a
\* fair scheduler, a writer that is in its loop once running is False
\* eventually leaves the loop and closes the file; the step in which it
\* leaves is the test of the queue, taken after it read running as False, with
\* the queue empty and running False.
C20_WriterExitsAfterStop ==
    /\ \A w \in Writers : (InLoop(w) /\ ~running) ~> (wpc[w] = "exited")
    /\ [][\A w \in Writers : WriterExits(w) =>
             (wpc[w] = "loop2" /\ log_queue = <<>> /\ ~running)]_vars
    /\ [](\A w \in Writers : wpc[w] = "loop2" => ~running)

\* stop() has returned, the writer has written the shutdown record, found
\* running False and the queue empty, and has left its loop
C20_Witness ==
    /\ StopReturned
    /\ wpc[1] = "exited"
    /\ log_queue = <<>>
    /\ \E i \in DOMAIN logfile : logfile[i].body = ShutdownEntry.body

============================================================================
